---- MODULE Spec2Model ----
(***************************************************************************)
(* Page-table update engine of xen-2.4.16/common/memory.c.                 *)
(*                                                                         *)
(* The machine is scaled down: a page holds ENTRIES_PER_PAGE entries, the  *)
(* frame table has max_page frames.  Counts are 32-bit words, held here as *)
(* the two's-complement value of the word (so 0 - 1 is -1, the word        *)
(* 0xFFFFFFFF, whose bit 30 is set).                                       *)
(***************************************************************************)
EXTENDS Integers, FiniteSets, Sequences, TLC

VARIABLES ft, mem, pagetable, killed, tlb_flush, assert_failed, halted, nreq, nwrites, nunchecked

vars == <<ft, mem, pagetable, killed, tlb_flush, assert_failed, halted, nreq, nwrites, nunchecked>>

(***************************************************************************)
(* Bounds of the model.                                                    *)
(***************************************************************************)
\* steps of a run: requests the dispatcher processes and stores a guest makes
MaxRequests == 4
\* no reference count (pin bit aside) is raised above MaxRef
MaxRef == 2
\* stores a guest makes with its own instructions into frames it can write
MaxGuestWrites == 1
\* unchecked updates domain 0 issues
MaxUnchecked == 1

(***************************************************************************)
(* Machine constants, scaled.                                              *)
(***************************************************************************)
\* frames 0 .. max_page-1 are in the frame table
max_page == 5
\* guest part of a page directory: entries 0 .. DOMAIN_ENTRIES_PER_L2_PAGETABLE-1
DOMAIN_ENTRIES_PER_L2_PAGETABLE == 2
\* hypervisor part of a page directory (fewer entries than the guest part, as
\* on the real machine, where the split is 1008 / 16)
HYPERVISOR_ENTRIES_PER_L2_PAGETABLE == 1
ENTRIES_PER_L2_PAGETABLE == DOMAIN_ENTRIES_PER_L2_PAGETABLE + HYPERVISOR_ENTRIES_PER_L2_PAGETABLE
ENTRIES_PER_L1_PAGETABLE == ENTRIES_PER_L2_PAGETABLE
REFCNT_PIN_BIT == 1073741824

PGT_none == 0
PGT_l1_page_table == 1
PGT_l2_page_table == 2
PGT_writeable_page == 3

Frames == 0 .. (max_page - 1)
Slots == 0 .. (ENTRIES_PER_L1_PAGETABLE - 1)
Domains == {0, 1}
\* the domain field of the flags word of the hypervisor's own frames
HYPERVISOR_OWNER == 2
\* a frame of the monitor, which the idle page directory's high entries name
HypFrame == 0

\* the one frame of domain 1, the last of the frame table
ForeignFrame == max_page - 1

\* flags & PG_domain_mask: set by the allocator, never changed by the engine
Owner(f) == IF f = HypFrame THEN HYPERVISOR_OWNER ELSE IF f < ForeignFrame THEN 0 ELSE 1

(***************************************************************************)
(* Words.                                                                  *)
(***************************************************************************)
Inc32(x) == IF x = 2147483647 THEN (-2147483647) - 1 ELSE x + 1
Dec32(x) == IF x = (-2147483647) - 1 THEN 2147483647 ELSE x - 1
\* x & REFCNT_PIN_BIT
HasPin(x) == ((x \div REFCNT_PIN_BIT) % 2) = 1
\* x |= REFCNT_PIN_BIT
SetPin(x) == IF HasPin(x) THEN x ELSE x + REFCNT_PIN_BIT
\* x &= ~REFCNT_PIN_BIT
ClrPin(x) == IF HasPin(x) THEN x - REFCNT_PIN_BIT ELSE x
\* the count without its pin bit (bits 0..29)
LowPart(x) == x % REFCNT_PIN_BIT
\* a | b on the two bits of a type tag or of a domain field
BitOr2(a, b) ==
    (IF (a % 2 = 1) \/ (b % 2 = 1) THEN 1 ELSE 0)
    + 2 * (IF ((a \div 2) % 2 = 1) \/ ((b \div 2) % 2 = 1) THEN 1 ELSE 0)

(***************************************************************************)
(* Page-table entries: present, RW, global, PSE/PAT and the frame number.  *)
(***************************************************************************)
mk_entry(p, rw, g, x, pfn) == [p |-> p, rw |-> rw, g |-> g, x |-> x, pfn |-> pfn]
NotPresent == mk_entry(FALSE, FALSE, FALSE, FALSE, 0)
\* the idle page directory's high entries and the per-domain entry, __PAGE_HYPERVISOR
hyp_l2_entry == mk_entry(TRUE, TRUE, FALSE, FALSE, HypFrame)

\* the frames of domain 0 besides its first page directory
OwnPfns == 2 .. (ForeignFrame - 1)
\* values a request carries: entries naming frames of domain 0, the frame of
\* domain 1 and a frame out of range, and entries with a forbidden bit
InputEntries ==
    {NotPresent}
    \cup {mk_entry(TRUE, rw, FALSE, FALSE, pfn) : rw \in BOOLEAN, pfn \in OwnPfns}
    \cup {mk_entry(TRUE, rw, FALSE, FALSE, ForeignFrame) : rw \in BOOLEAN}
    \cup {mk_entry(TRUE, TRUE, FALSE, FALSE, max_page)}
    \cup {mk_entry(TRUE, FALSE, TRUE, FALSE, 2), mk_entry(TRUE, FALSE, FALSE, TRUE, 2)}
\* values a store that is not validated carries (a guest's own store, an
\* unchecked update)
RawEntries ==
    {NotPresent}
    \cup {mk_entry(TRUE, rw, FALSE, FALSE, pfn) : rw \in BOOLEAN, pfn \in OwnPfns}
    \cup {mk_entry(TRUE, TRUE, FALSE, FALSE, ForeignFrame)}

(***************************************************************************)
(* The engine's state as the functions below thread it: the frame table,   *)
(* the pages, this CPU's flush flag, whether an ASSERT's condition was     *)
(* false, and whether a count was raised past MaxRef.                      *)
(***************************************************************************)
\* unheld records that a release found no reference to give back: a test of
\* dec_page_refcnt failed, or a count was 0 before its decrement
mk_state(f, m, t, a) ==
    [ft |-> f, mem |-> m, tlb |-> t, af |-> a, over |-> FALSE, unheld |-> FALSE]
result(s, ret) == [s |-> s, ret |-> ret]

\* get_page_tot / get_page_type: count++, the value of the expression is the old count
Bump(s, c) == IF LowPart(c) = MaxRef THEN [s EXCEPT !.over = TRUE] ELSE s

\* inc_page_refcnt that forgets get_page_tot
inc_page_refcnt_notot(s, d, page_nr, type) ==
    IF page_nr >= max_page THEN result(s, -1)
    ELSE LET page == s.ft[page_nr] IN
         IF Owner(page_nr) # d THEN result(s, -1)
         ELSE IF page.type # type /\ page.type_count # 0 THEN result(s, -1)
         ELSE LET t == IF page.type # type THEN BitOr2(page.type, type) ELSE page.type
                  p1 == [type |-> t,
                         tot_count |-> page.tot_count,
                         type_count |-> Inc32(page.type_count)]
                  s1 == Bump(s, page.type_count)
              IN result([s1 EXCEPT !.ft[page_nr] = p1], page.type_count)

\* inc_page_refcnt that retypes the frame whatever its type count
inc_page_refcnt_nocheck(s, d, page_nr, type) ==
    IF page_nr >= max_page THEN result(s, -1)
    ELSE LET page == s.ft[page_nr] IN
         IF Owner(page_nr) # d THEN result(s, -1)
         ELSE LET p1 == [type |-> type,
                         tot_count |-> Inc32(page.tot_count),
                         type_count |-> Inc32(page.type_count)]
                  s1 == Bump(Bump(s, page.tot_count), page.type_count)
              IN result([s1 EXCEPT !.ft[page_nr] = p1], page.type_count)

inc_page_refcnt(s, d, page_nr, type) ==
    IF page_nr >= max_page THEN result(s, -1)
    ELSE LET page == s.ft[page_nr] IN
         IF Owner(page_nr) # d THEN result(s, -1)
         ELSE IF page.type # type /\ page.type_count # 0 THEN result(s, -1)
         ELSE LET t == IF page.type # type THEN BitOr2(page.type, type) ELSE page.type
                  p1 == [type |-> t,
                         tot_count |-> Inc32(page.tot_count),
                         type_count |-> Inc32(page.type_count)]
                  s1 == Bump(Bump(s, page.tot_count), page.type_count)
              IN result([s1 EXCEPT !.ft[page_nr] = p1], page.type_count)

\* dec_page_refcnt that tests the count without its pin bit
dec_page_refcnt_lowpart(s, d, page_nr, type) ==
    IF page_nr >= max_page THEN result([s EXCEPT !.unheld = TRUE], -1)
    ELSE LET page == s.ft[page_nr] IN
         IF page.type # type \/ Owner(page_nr) # d
         THEN result([s EXCEPT !.unheld = TRUE], -1)
         ELSE LET ret == Dec32(page.type_count)
                  p1 == [type |-> IF LowPart(ret) = 0 THEN PGT_none ELSE page.type,
                         tot_count |-> Dec32(page.tot_count),
                         type_count |-> ret]
              IN result([s EXCEPT !.ft[page_nr] = p1,
                                  !.af = s.af \/ page.type_count = 0,
                                  !.unheld = s.unheld \/ page.type_count = 0], ret)

\* dec_page_refcnt that leaves the type tag when the count reaches 0
dec_page_refcnt_keeptype(s, d, page_nr, type) ==
    IF page_nr >= max_page THEN result([s EXCEPT !.unheld = TRUE], -1)
    ELSE LET page == s.ft[page_nr] IN
         IF page.type # type \/ Owner(page_nr) # d
         THEN result([s EXCEPT !.unheld = TRUE], -1)
         ELSE LET ret == Dec32(page.type_count)
                  p1 == [type |-> page.type,
                         tot_count |-> Dec32(page.tot_count),
                         type_count |-> ret]
              IN result([s EXCEPT !.ft[page_nr] = p1,
                                  !.af = s.af \/ page.type_count = 0,
                                  !.unheld = s.unheld \/ page.type_count = 0], ret)

dec_page_refcnt(s, d, page_nr, type) ==
    IF page_nr >= max_page THEN result([s EXCEPT !.unheld = TRUE], -1)
    ELSE LET page == s.ft[page_nr] IN
         IF page.type # type \/ Owner(page_nr) # d
         THEN result([s EXCEPT !.unheld = TRUE], -1)
         ELSE LET ret == Dec32(page.type_count)
                  p1 == [type |-> IF ret = 0 THEN PGT_none ELSE page.type,
                         tot_count |-> Dec32(page.tot_count),
                         type_count |-> ret]
              IN result([s EXCEPT !.ft[page_nr] = p1,
                                  !.af = s.af \/ page.type_count = 0,
                                  !.unheld = s.unheld \/ page.type_count = 0], ret)

\* get_page without the ownership test
get_page_noowner(s, d, page_nr, writeable) ==
    IF page_nr >= max_page THEN result(s, -1)
    ELSE LET page == s.ft[page_nr] IN
         IF writeable
         THEN IF page.type # PGT_writeable_page /\ page.type_count # 0
              THEN result(s, -1)
              ELSE LET t == IF page.type # PGT_writeable_page
                            THEN BitOr2(page.type, PGT_writeable_page) ELSE page.type
                       p1 == [type |-> t,
                              tot_count |-> Inc32(page.tot_count),
                              type_count |-> Inc32(page.type_count)]
                       s1 == Bump(Bump(s, page.tot_count), page.type_count)
                   IN result([s1 EXCEPT !.ft[page_nr] = p1], 0)
         ELSE result([Bump(s, page.tot_count) EXCEPT
                          !.ft[page_nr].tot_count = Inc32(page.tot_count)], 0)

\* get_page that counts a writeable reference without committing the type
get_page_notype(s, d, page_nr, writeable) ==
    IF page_nr >= max_page THEN result(s, -1)
    ELSE LET page == s.ft[page_nr] IN
         IF Owner(page_nr) # d THEN result(s, -1)
         ELSE IF writeable
         THEN IF page.type # PGT_writeable_page /\ page.type_count # 0
              THEN result(s, -1)
              ELSE LET p1 == [type |-> page.type,
                              tot_count |-> Inc32(page.tot_count),
                              type_count |-> Inc32(page.type_count)]
                       s1 == Bump(Bump(s, page.tot_count), page.type_count)
                   IN result([s1 EXCEPT !.ft[page_nr] = p1], 0)
         ELSE result([Bump(s, page.tot_count) EXCEPT
                          !.ft[page_nr].tot_count = Inc32(page.tot_count)], 0)

\* get_page that takes every reference as a writeable one
get_page_allwriteable(s, d, page_nr, writeable) ==
    IF page_nr >= max_page THEN result(s, -1)
    ELSE LET page == s.ft[page_nr] IN
         IF Owner(page_nr) # d THEN result(s, -1)
         ELSE IF page.type # PGT_writeable_page /\ page.type_count # 0
              THEN result(s, -1)
              ELSE LET t == IF page.type # PGT_writeable_page
                            THEN BitOr2(page.type, PGT_writeable_page) ELSE page.type
                       p1 == [type |-> t,
                              tot_count |-> Inc32(page.tot_count),
                              type_count |-> Inc32(page.type_count)]
                       s1 == Bump(Bump(s, page.tot_count), page.type_count)
                   IN result([s1 EXCEPT !.ft[page_nr] = p1], 0)

get_page(s, d, page_nr, writeable) ==
    IF page_nr >= max_page THEN result(s, -1)
    ELSE LET page == s.ft[page_nr] IN
         IF Owner(page_nr) # d THEN result(s, -1)
         ELSE IF writeable
         THEN IF page.type # PGT_writeable_page /\ page.type_count # 0
              THEN result(s, -1)
              ELSE LET t == IF page.type # PGT_writeable_page
                            THEN BitOr2(page.type, PGT_writeable_page) ELSE page.type
                       p1 == [type |-> t,
                              tot_count |-> Inc32(page.tot_count),
                              type_count |-> Inc32(page.type_count)]
                       s1 == Bump(Bump(s, page.tot_count), page.type_count)
                   IN result([s1 EXCEPT !.ft[page_nr] = p1], 0)
         ELSE result([Bump(s, page.tot_count) EXCEPT
                          !.ft[page_nr].tot_count = Inc32(page.tot_count)], 0)

\* put_page that does not ask for a flush when the last writeable reference goes
put_page_noflush(s, d, page_nr, writeable) ==
    IF page_nr >= max_page
    THEN [s EXCEPT !.af = TRUE, !.unheld = TRUE]
    ELSE LET page == s.ft[page_nr]
             bad == \/ Owner(page_nr) # d
                    \/ writeable /\ ~(page.type_count # 0 /\ page.type = PGT_writeable_page)
             tc == IF writeable THEN Dec32(page.type_count) ELSE page.type_count
             last == writeable /\ tc = 0
             p1 == [type |-> IF last THEN PGT_none ELSE page.type,
                    tot_count |-> Dec32(page.tot_count),
                    type_count |-> tc]
         IN [s EXCEPT !.ft[page_nr] = p1,
                      !.af = s.af \/ bad,
                      !.unheld = s.unheld \/ bad \/ page.tot_count = 0]

put_page(s, d, page_nr, writeable) ==
    IF page_nr >= max_page
    THEN \* ASSERT(page_nr < max_page) is false; the frame record is outside the table
         [s EXCEPT !.af = TRUE, !.unheld = TRUE]
    ELSE LET page == s.ft[page_nr]
             bad == \/ Owner(page_nr) # d
                    \/ writeable /\ ~(page.type_count # 0 /\ page.type = PGT_writeable_page)
             tc == IF writeable THEN Dec32(page.type_count) ELSE page.type_count
             last == writeable /\ tc = 0
             p1 == [type |-> IF last THEN PGT_none ELSE page.type,
                    tot_count |-> Dec32(page.tot_count),
                    type_count |-> tc]
         IN [s EXCEPT !.ft[page_nr] = p1,
                      !.tlb = s.tlb \/ last,
                      !.af = s.af \/ bad,
                      !.unheld = s.unheld \/ bad \/ page.tot_count = 0]

\* the walk of get_l1_table taking every entry as a read-only reference
RECURSIVE get_l1_walk_readonly(_, _, _, _)
get_l1_walk_readonly(s, d, page_nr, i) ==
    IF i >= ENTRIES_PER_L1_PAGETABLE THEN result(s, 0)
    ELSE LET l1_entry == s.mem[page_nr][i] IN
         IF ~l1_entry.p THEN get_l1_walk_readonly(s, d, page_nr, i + 1)
         ELSE IF l1_entry.g \/ l1_entry.x THEN result(s, -1)
         ELSE LET r == get_page(s, d, l1_entry.pfn, FALSE) IN
              IF r.ret # 0 THEN r ELSE get_l1_walk_readonly(r.s, d, page_nr, i + 1)

RECURSIVE get_l1_walk(_, _, _, _)
get_l1_walk(s, d, page_nr, i) ==
    IF i >= ENTRIES_PER_L1_PAGETABLE THEN result(s, 0)
    ELSE LET l1_entry == s.mem[page_nr][i] IN
         IF ~l1_entry.p THEN get_l1_walk(s, d, page_nr, i + 1)
         ELSE IF l1_entry.g \/ l1_entry.x THEN result(s, -1)
         ELSE LET r == get_page(s, d, l1_entry.pfn, l1_entry.rw) IN
              IF r.ret # 0 THEN r ELSE get_l1_walk(r.s, d, page_nr, i + 1)

\* get_l1_table that validates the entries on every reference it takes
get_l1_table_revalidate(s, d, page_nr) ==
    LET r == inc_page_refcnt(s, d, page_nr, PGT_l1_page_table) IN
    IF r.ret < 0 THEN result(r.s, r.ret)
    ELSE get_l1_walk(r.s, d, page_nr, 0)

get_l1_table(s, d, page_nr) ==
    LET r == inc_page_refcnt(s, d, page_nr, PGT_l1_page_table) IN
    IF r.ret # 0 THEN result(r.s, IF r.ret < 0 THEN r.ret ELSE 0)
    ELSE get_l1_walk(r.s, d, page_nr, 0)

RECURSIVE get_l2_walk(_, _, _, _)
get_l2_walk(s, d, page_nr, i) ==
    IF i >= DOMAIN_ENTRIES_PER_L2_PAGETABLE THEN result(s, 0)
    ELSE LET l2_entry == s.mem[page_nr][i] IN
         IF ~l2_entry.p THEN get_l2_walk(s, d, page_nr, i + 1)
         ELSE IF l2_entry.g \/ l2_entry.x THEN result(s, -1)
         ELSE LET r == get_l1_table(s, d, l2_entry.pfn) IN
              IF r.ret # 0 THEN r ELSE get_l2_walk(r.s, d, page_nr, i + 1)

\* the high mapping slapped into a new page directory
high_mapping(page) ==
    [i \in Slots |-> IF i >= DOMAIN_ENTRIES_PER_L2_PAGETABLE THEN hyp_l2_entry ELSE page[i]]

get_l2_table(s, d, page_nr) ==
    LET r == inc_page_refcnt(s, d, page_nr, PGT_l2_page_table) IN
    IF r.ret # 0 THEN result(r.s, IF r.ret < 0 THEN r.ret ELSE 0)
    ELSE LET w == get_l2_walk(r.s, d, page_nr, 0) IN
         IF w.ret # 0 THEN w
         ELSE result([w.s EXCEPT !.mem[page_nr] = high_mapping(w.s.mem[page_nr])], 0)

RECURSIVE put_l1_walk(_, _, _, _)
put_l1_walk(s, d, page_nr, i) ==
    IF i >= ENTRIES_PER_L1_PAGETABLE THEN s
    ELSE LET l1_entry == s.mem[page_nr][i] IN
         IF l1_entry.p
         THEN put_l1_walk(put_page(s, d, l1_entry.pfn, l1_entry.rw), d, page_nr, i + 1)
         ELSE put_l1_walk(s, d, page_nr, i + 1)

put_l1_table(s, d, page_nr) ==
    LET r == dec_page_refcnt(s, d, page_nr, PGT_l1_page_table) IN
    IF r.ret # 0 THEN r.s ELSE put_l1_walk(r.s, d, page_nr, 0)

\* the release walk over all the entries of the page directory, the
\* hypervisor's included
RECURSIVE put_l2_walk_all(_, _, _, _)
put_l2_walk_all(s, d, page_nr, i) ==
    IF i >= ENTRIES_PER_L2_PAGETABLE THEN s
    ELSE LET l2_entry == s.mem[page_nr][i] IN
         IF l2_entry.p
         THEN put_l2_walk_all(put_l1_table(s, d, l2_entry.pfn), d, page_nr, i + 1)
         ELSE put_l2_walk_all(s, d, page_nr, i + 1)

RECURSIVE put_l2_walk(_, _, _, _)
put_l2_walk(s, d, page_nr, i) ==
    IF i >= HYPERVISOR_ENTRIES_PER_L2_PAGETABLE THEN s
    ELSE LET l2_entry == s.mem[page_nr][i] IN
         IF l2_entry.p
         THEN put_l2_walk(put_l1_table(s, d, l2_entry.pfn), d, page_nr, i + 1)
         ELSE put_l2_walk(s, d, page_nr, i + 1)

put_l2_table(s, d, page_nr) ==
    LET r == dec_page_refcnt(s, d, page_nr, PGT_l2_page_table) IN
    IF r.ret # 0 THEN result(r.s, IF r.ret < 0 THEN r.ret ELSE 0)
    ELSE result(put_l2_walk(r.s, d, page_nr, 0), 0)

(***************************************************************************)
(* Entry modifiers.  pa is (frame, slot).                                  *)
(***************************************************************************)
\* mod_l2_entry without the test of the entry's offset
mod_l2_entry_nobound(s, d, pfn, idx, new_l2_entry) ==
    LET old_l2_entry == s.mem[pfn][idx]
        written == [s EXCEPT !.mem[pfn][idx] = new_l2_entry]
        fail(s1) == result([s1 EXCEPT !.mem[pfn][idx] = old_l2_entry], -1)
    IN
    IF new_l2_entry.p
    THEN IF new_l2_entry.g \/ new_l2_entry.x THEN fail(written)
         ELSE IF old_l2_entry.pfn # new_l2_entry.pfn \/ old_l2_entry.p # new_l2_entry.p
         THEN LET s1 == IF old_l2_entry.p
                        THEN put_l1_table(written, d, old_l2_entry.pfn) ELSE written
                  r == get_l1_table(s1, d, new_l2_entry.pfn)
              IN IF r.ret # 0 THEN fail(r.s) ELSE result(r.s, 0)
         ELSE result(written, 0)
    ELSE IF old_l2_entry.p
    THEN result(put_l1_table(written, d, old_l2_entry.pfn), 0)
    ELSE result(written, 0)

mod_l2_entry(s, d, pfn, idx, new_l2_entry) ==
    LET old_l2_entry == s.mem[pfn][idx]
        written == [s EXCEPT !.mem[pfn][idx] = new_l2_entry]
        \* fail: the old value is put back
        fail(s1) == result([s1 EXCEPT !.mem[pfn][idx] = old_l2_entry], -1)
    IN
    IF idx >= DOMAIN_ENTRIES_PER_L2_PAGETABLE THEN fail(s)
    ELSE IF new_l2_entry.p
    THEN IF new_l2_entry.g \/ new_l2_entry.x THEN fail(written)
         ELSE IF old_l2_entry.pfn # new_l2_entry.pfn \/ old_l2_entry.p # new_l2_entry.p
         THEN LET s1 == IF old_l2_entry.p
                        THEN put_l1_table(written, d, old_l2_entry.pfn) ELSE written
                  r == get_l1_table(s1, d, new_l2_entry.pfn)
              IN IF r.ret # 0 THEN fail(r.s) ELSE result(r.s, 0)
         ELSE result(written, 0)
    ELSE IF old_l2_entry.p
    THEN result(put_l1_table(written, d, old_l2_entry.pfn), 0)
    ELSE result(written, 0)

\* mod_l1_entry comparing old and new entry with the mask of mod_l2_entry,
\* which leaves the RW bit out
mod_l1_entry_l2mask(s, d, pfn, idx, new_l1_entry) ==
    LET old_l1_entry == s.mem[pfn][idx]
        write(s1) == result([s1 EXCEPT !.mem[pfn][idx] = new_l1_entry], 0)
    IN
    IF new_l1_entry.p
    THEN IF new_l1_entry.g \/ new_l1_entry.x THEN result(s, -1)
         ELSE IF \/ old_l1_entry.pfn # new_l1_entry.pfn
                 \/ old_l1_entry.p # new_l1_entry.p
         THEN LET s1 == IF old_l1_entry.p
                        THEN put_page(s, d, old_l1_entry.pfn, old_l1_entry.rw) ELSE s
                  r == get_page(s1, d, new_l1_entry.pfn, new_l1_entry.rw)
              IN IF r.ret # 0 THEN result(r.s, -1) ELSE write(r.s)
         ELSE write(s)
    ELSE IF old_l1_entry.p
    THEN write(put_page(s, d, old_l1_entry.pfn, old_l1_entry.rw))
    ELSE write(s)

mod_l1_entry(s, d, pfn, idx, new_l1_entry) ==
    LET old_l1_entry == s.mem[pfn][idx]
        write(s1) == result([s1 EXCEPT !.mem[pfn][idx] = new_l1_entry], 0)
    IN
    IF new_l1_entry.p
    THEN IF new_l1_entry.g \/ new_l1_entry.x THEN result(s, -1)
         ELSE IF \/ old_l1_entry.pfn # new_l1_entry.pfn
                 \/ old_l1_entry.rw # new_l1_entry.rw
                 \/ old_l1_entry.p # new_l1_entry.p
         THEN LET s1 == IF old_l1_entry.p
                        THEN put_page(s, d, old_l1_entry.pfn, old_l1_entry.rw) ELSE s
                  r == get_page(s1, d, new_l1_entry.pfn, new_l1_entry.rw)
              IN IF r.ret # 0 THEN result(r.s, -1) ELSE write(r.s)
         ELSE write(s)
    ELSE IF old_l1_entry.p
    THEN write(put_page(s, d, old_l1_entry.pfn, old_l1_entry.rw))
    ELSE write(s)

(***************************************************************************)
(* Extended commands.  The result carries the domain's page-table base.    *)
(***************************************************************************)
ExtCmds == {"PIN_L1_TABLE", "PIN_L2_TABLE", "UNPIN_TABLE", "NEW_BASEPTR",
            "TLB_FLUSH", "INVLPG", "INVALID"}

xresult(s, base, err) == [s |-> s, base |-> base, err |-> err]

\* pinning that sets the bit whether or not it is already set
mark_as_pinned_nested(r, base, pfn) ==
    IF r.ret # 0 THEN xresult(r.s, base, r.ret)
    ELSE LET page == r.s.ft[pfn]
             tc == Dec32(page.type_count)
             tot == Dec32(page.tot_count)
         IN xresult([r.s EXCEPT !.ft[pfn].type_count = SetPin(tc),
                                !.ft[pfn].tot_count = SetPin(tot)], base, 0)

\* pinning that tests the pin bit first and leaves the reference of the get
\* in place when the frame is already pinned
mark_as_pinned_nodec(r, base, pfn) ==
    IF r.ret # 0 THEN xresult(r.s, base, r.ret)
    ELSE LET page == r.s.ft[pfn]
             tc == Dec32(page.type_count)
             tot == Dec32(page.tot_count)
         IN IF ~HasPin(tc)
            THEN xresult([r.s EXCEPT !.ft[pfn].type_count = SetPin(tc),
                                     !.ft[pfn].tot_count = SetPin(tot)], base, 0)
            ELSE xresult(r.s, base, 1)

\* mark_as_pinned, after a get that returned err
mark_as_pinned(r, base, pfn) ==
    IF r.ret # 0 THEN xresult(r.s, base, r.ret)
    ELSE LET page == r.s.ft[pfn]
             tc == Dec32(page.type_count)
             tot == Dec32(page.tot_count)
         IN IF ~HasPin(tc)
            THEN xresult([r.s EXCEPT !.ft[pfn].type_count = SetPin(tc),
                                     !.ft[pfn].tot_count = SetPin(tot)], base, 0)
            ELSE xresult([r.s EXCEPT !.ft[pfn].type_count = tc,
                                     !.ft[pfn].tot_count = tot], base, 1)

\* UNPIN that does not look at the frame's owner
unpin_table_noowner(s, d, base, pfn) ==
    LET page == s.ft[pfn] IN
    IF HasPin(page.type_count)
    THEN LET c1 == ClrPin(page.type_count)
             t1 == ClrPin(page.tot_count)
             s1 == Bump(Bump(s, c1), t1)
             s2 == [s1 EXCEPT !.ft[pfn].type_count = Inc32(c1),
                              !.ft[pfn].tot_count = Inc32(t1)]
         IN IF page.type = PGT_l1_page_table
            THEN xresult(put_l1_table(s2, d, pfn), base, 0)
            ELSE xresult(put_l2_table(s2, d, pfn).s, base, 0)
    ELSE xresult(s, base, 1)

unpin_table(s, d, base, pfn) ==
    LET page == s.ft[pfn] IN
    IF Owner(pfn) # d THEN xresult(s, base, 1)
    ELSE IF HasPin(page.type_count)
    THEN LET c1 == ClrPin(page.type_count)
             t1 == ClrPin(page.tot_count)
             s1 == Bump(Bump(s, c1), t1)
             s2 == [s1 EXCEPT !.ft[pfn].type_count = Inc32(c1),
                              !.ft[pfn].tot_count = Inc32(t1)]
         IN IF page.type = PGT_l1_page_table
            THEN xresult(put_l1_table(s2, d, pfn), base, 0)
            ELSE xresult(put_l2_table(s2, d, pfn).s, base, 0)
    ELSE xresult(s, base, 1)

\* NEW_BASEPTR that releases the old root and keeps pointing at it
new_baseptr_stale(s, d, base, pfn) ==
    LET r == get_l2_table(s, d, pfn)
        flush(s1) == [s1 EXCEPT !.tlb = TRUE]
    IN IF r.ret = 0
       THEN xresult(flush(put_l2_table(r.s, d, base).s), base, 0)
       ELSE xresult(flush(r.s), base, r.ret)

new_baseptr(s, d, base, pfn) ==
    LET r == get_l2_table(s, d, pfn)
        flush(s1) == [s1 EXCEPT !.tlb = TRUE]
    IN IF r.ret = 0
       THEN xresult(flush(put_l2_table(r.s, d, base).s), pfn, 0)
       ELSE xresult(flush(r.s), base, r.ret)

do_extended_command(s, d, base, pfn, cmd) ==
    CASE cmd = "PIN_L1_TABLE" -> mark_as_pinned(get_l1_table(s, d, pfn), base, pfn)
      [] cmd = "PIN_L2_TABLE" -> mark_as_pinned(get_l2_table(s, d, pfn), base, pfn)
      [] cmd = "UNPIN_TABLE"  -> unpin_table(s, d, base, pfn)
      [] cmd = "NEW_BASEPTR"  -> new_baseptr(s, d, base, pfn)
      [] cmd = "TLB_FLUSH"    -> xresult([s EXCEPT !.tlb = TRUE], base, 0)
      [] cmd = "INVLPG"       -> xresult(s, base, 0)
      [] OTHER                -> xresult(s, base, 1)

(***************************************************************************)
(* One iteration of the loop of do_process_page_updates.                   *)
(***************************************************************************)
ReqKinds == {"NORMAL", "UNCHECKED_UPDATE", "EXTENDED_COMMAND", "INVALID"}

\* the test of the unchecked update on the type alone
unchecked_allowed_anydomain(s, d, pfn) ==
    s.ft[pfn].type = PGT_l1_page_table

\* (flags | current->domain) == PGT_l1_page_table, the flags word being the
\* type tag above the domain field
unchecked_allowed(s, d, pfn) ==
    /\ s.ft[pfn].type = PGT_l1_page_table
    /\ BitOr2(Owner(pfn), d) = 0

\* the normal update without the test of the frame's owner
normal_update_noowner(s, d, base, pfn, idx, val) ==
    IF s.ft[pfn].type = PGT_l1_page_table
    THEN LET r == mod_l1_entry(s, d, pfn, idx, val) IN xresult(r.s, base, r.ret)
    ELSE IF s.ft[pfn].type = PGT_l2_page_table
    THEN LET r == mod_l2_entry(s, d, pfn, idx, val) IN xresult(r.s, base, r.ret)
    ELSE xresult(s, base, 1)

normal_update(s, d, base, pfn, idx, val) ==
    IF Owner(pfn) = d
    THEN IF s.ft[pfn].type = PGT_l1_page_table
         THEN LET r == mod_l1_entry(s, d, pfn, idx, val) IN xresult(r.s, base, r.ret)
         ELSE IF s.ft[pfn].type = PGT_l2_page_table
         THEN LET r == mod_l2_entry(s, d, pfn, idx, val) IN xresult(r.s, base, r.ret)
         ELSE xresult(s, base, 1)
    ELSE xresult(s, base, 1)

unchecked_update(s, d, base, pfn, idx, val) ==
    IF unchecked_allowed(s, d, pfn)
    THEN xresult([s EXCEPT !.mem[pfn][idx] = val], base, 0)
    ELSE xresult(s, base, 1)

\* the state the functions above start from, for the CPU domain d runs on
Cur(d) == mk_state(ft, mem, tlb_flush[d], assert_failed)

\* kill_domain_with_errmsg that comes back and lets the loop go on
kill_domain_with_errmsg_returns(d) == killed

\* kill_domain_with_errmsg: the domain is dead from here on and does not come
\* back to the dispatcher (every action of a domain requires ~killed[d])
kill_domain_with_errmsg(d) == [killed EXCEPT ![d] = TRUE]

\* if ( err ) kill_domain_with_errmsg("Illegal page update request")
kill_on_error(d, err) == IF err # 0 THEN kill_domain_with_errmsg(d) ELSE killed

\* the variables after one request of domain d that ended as x; a request that
\* ends with err # 0 kills the domain.  When the condition of an ASSERT was
\* false on the way, a build with assertions halts the machine there and a
\* build without them goes on.
Finish(d, x) ==
    /\ ~halted
    /\ nreq < MaxRequests
    /\ nreq' = nreq + 1
    /\ ~x.s.over
    /\ \/ /\ ft' = x.s.ft
          /\ mem' = x.s.mem
          /\ tlb_flush' = [tlb_flush EXCEPT ![d] = x.s.tlb]
          /\ assert_failed' = x.s.af
          /\ pagetable' = [pagetable EXCEPT ![d] = x.base]
          /\ killed' = kill_on_error(d, x.err)
          /\ UNCHANGED halted
       \/ /\ x.s.af /\ ~assert_failed
          /\ halted' = TRUE
          /\ UNCHANGED <<ft, mem, tlb_flush, assert_failed, pagetable, killed>>

NormalUpdate(d, pfn, idx, val) ==
    /\ ~killed[d]
    /\ pfn < max_page
    /\ Finish(d, normal_update(Cur(d), d, pagetable[d], pfn, idx, val))
    /\ UNCHANGED <<nwrites, nunchecked>>

UncheckedUpdate(d, pfn, idx, val) ==
    /\ ~killed[d]
    /\ pfn < max_page
    /\ nunchecked < MaxUnchecked
    /\ Finish(d, unchecked_update(Cur(d), d, pagetable[d], pfn, idx, val))
    /\ nunchecked' = nunchecked + 1
    /\ UNCHANGED nwrites

ExtendedCommand(d, pfn, cmd) ==
    /\ ~killed[d]
    /\ pfn < max_page
    /\ Finish(d, do_extended_command(Cur(d), d, pagetable[d], pfn, cmd))
    /\ UNCHANGED <<nwrites, nunchecked>>

\* ptr >> PAGE_SHIFT >= max_page, or the low bits of ptr name no request kind
RejectedRequest(d, pfn, kind) ==
    /\ ~killed[d]
    /\ pfn >= max_page \/ kind = "INVALID"
    /\ ~halted
    /\ nreq < MaxRequests
    /\ nreq' = nreq + 1
    /\ killed' = kill_domain_with_errmsg(d)
    /\ UNCHANGED <<ft, mem, pagetable, tlb_flush, assert_failed, halted, nwrites, nunchecked>>

\* the end of a batch: the flush flag is consumed and the root reloaded
BatchEnd(d) ==
    /\ ~killed[d]
    /\ ~halted
    /\ tlb_flush[d]
    /\ tlb_flush' = [tlb_flush EXCEPT ![d] = FALSE]
    /\ UNCHANGED <<ft, mem, pagetable, killed, assert_failed, halted, nreq, nwrites, nunchecked>>

\* a guest stores into a frame of its own that is not in use as a page table
GuestWrite(d, pfn, idx, val) ==
    /\ ~killed[d]
    /\ ~halted
    /\ nwrites < MaxGuestWrites
    /\ pfn < max_page
    /\ Owner(pfn) = d
    /\ ft[pfn].type \notin {PGT_l1_page_table, PGT_l2_page_table}
    /\ mem[pfn][idx] # val
    /\ mem' = [mem EXCEPT ![pfn][idx] = val]
    /\ nwrites' = nwrites + 1
    /\ nreq < MaxRequests
    /\ nreq' = nreq + 1
    /\ UNCHANGED <<ft, pagetable, killed, tlb_flush, assert_failed, halted, nunchecked>>

(***************************************************************************)
(* The frame table after the domains were built: each domain runs on a     *)
(* validated, empty page directory; every other frame is unused.           *)
(***************************************************************************)
Roots == [d \in Domains |-> IF d = 0 THEN 1 ELSE ForeignFrame]

Init ==
    /\ ft = [f \in Frames |->
               IF \E d \in Domains : Roots[d] = f
               THEN [type |-> PGT_l2_page_table, tot_count |-> 1, type_count |-> 1]
               ELSE [type |-> PGT_none, tot_count |-> 0, type_count |-> 0]]
    /\ mem = [f \in Frames |->
               IF \E d \in Domains : Roots[d] = f
               THEN high_mapping([i \in Slots |-> NotPresent])
               ELSE [i \in Slots |-> NotPresent]]
    /\ pagetable = Roots
    /\ killed = [d \in Domains |-> FALSE]
    /\ tlb_flush = [d \in Domains |-> FALSE]
    /\ assert_failed = FALSE
    /\ halted = FALSE
    /\ nreq = 0
    /\ nwrites = 0
    /\ nunchecked = 0

ReqPfns == 0 .. max_page
\* the domains that issue requests
Actors == {0}

Next ==
    \/ \E d \in Actors, pfn \in ReqPfns, idx \in Slots, val \in InputEntries :
          NormalUpdate(d, pfn, idx, val)
    \/ \E d \in Actors, pfn \in ReqPfns, idx \in Slots, val \in RawEntries :
          UncheckedUpdate(d, pfn, idx, val)
    \/ \E d \in Actors, pfn \in ReqPfns, cmd \in ExtCmds :
          ExtendedCommand(d, pfn, cmd)
    \/ \E d \in Actors, pfn \in ReqPfns, kind \in ReqKinds :
          RejectedRequest(d, pfn, kind)
    \/ \E d \in Actors : BatchEnd(d)
    \/ \E d \in Actors, pfn \in Frames, idx \in Slots, val \in RawEntries :
          GuestWrite(d, pfn, idx, val)

Spec == Init /\ [][Next]_vars

(***************************************************************************)
(* Two domains issuing requests, interleaved request by request.           *)
(***************************************************************************)
\* steps of a run of the two domains together
MaxRequests2 == 3

\* one step of domain d
Step(d) ==
    \/ \E pfn \in ReqPfns, idx \in Slots, val \in InputEntries :
          NormalUpdate(d, pfn, idx, val)
    \/ \E pfn \in ReqPfns, idx \in Slots, val \in RawEntries :
          UncheckedUpdate(d, pfn, idx, val)
    \/ \E pfn \in ReqPfns, cmd \in ExtCmds :
          ExtendedCommand(d, pfn, cmd)
    \/ \E pfn \in ReqPfns, kind \in ReqKinds :
          RejectedRequest(d, pfn, kind)
    \/ BatchEnd(d)
    \/ \E pfn \in Frames, idx \in Slots, val \in RawEntries :
          GuestWrite(d, pfn, idx, val)

Next2 ==
    \/ /\ nreq < MaxRequests2
       /\ \E d \in Domains, pfn \in ReqPfns, idx \in Slots, val \in InputEntries :
             NormalUpdate(d, pfn, idx, val)
    \/ /\ nreq < MaxRequests2
       /\ \E d \in Domains, pfn \in ReqPfns, idx \in Slots, val \in RawEntries :
             UncheckedUpdate(d, pfn, idx, val)
    \/ /\ nreq < MaxRequests2
       /\ \E d \in Domains, pfn \in ReqPfns, cmd \in ExtCmds :
             ExtendedCommand(d, pfn, cmd)
    \/ /\ nreq < MaxRequests2
       /\ \E d \in Domains, pfn \in ReqPfns, kind \in ReqKinds :
             RejectedRequest(d, pfn, kind)
    \/ \E d \in Domains : BatchEnd(d)
    \/ /\ nreq < MaxRequests2
       /\ \E d \in Domains, pfn \in Frames, idx \in Slots, val \in RawEntries :
             GuestWrite(d, pfn, idx, val)

Spec2 == Init /\ [][Next2]_vars

(***************************************************************************)
(* Vocabulary of the claims.                                               *)
(***************************************************************************)
TableTypes == {PGT_l1_page_table, PGT_l2_page_table}
GuestSlots == 0 .. (DOMAIN_ENTRIES_PER_L2_PAGETABLE - 1)
Pinned(f) == HasPin(ft[f].type_count)
\* domain d has had every request it issued succeed
Alive(d) == ~killed[d]
\* no unchecked update has been issued
NoUnchecked == nunchecked = 0
\* the present RW entries, in frames of type L1-table, that name frame f
RWRefs(f) ==
    {<<t, i>> \in Frames \X Slots :
        /\ ft[t].type = PGT_l1_page_table
        /\ mem[t][i].p /\ mem[t][i].rw /\ mem[t][i].pfn = f}
\* the present entries, in the guest part of frames of type L2-table, that name f
L2Refs(f) ==
    {<<t, i>> \in Frames \X GuestSlots :
        /\ ft[t].type = PGT_l2_page_table
        /\ mem[t][i].p /\ mem[t][i].pfn = f}
\* the present entries of the tables of domain d: every slot of an L1 table,
\* the guest slots of an L2 table
TableEntries(d) ==
    {<<t, i>> \in Frames \X Slots :
        /\ Owner(t) = d /\ mem[t][i].p
        /\ \/ ft[t].type = PGT_l1_page_table
           \/ ft[t].type = PGT_l2_page_table /\ i \in GuestSlots}
IsFrame(pfn) == pfn < max_page

(***************************************************************************)
(* C1.  After any sequence of successful normal and extended requests (no  *)
(* unchecked update), no frame that is an L1 or L2 table with a non-zero   *)
(* type_count is named by a present RW entry of a frame of type L1-table.  *)
(***************************************************************************)
C1_NoWriteableMappingOfTable ==
    NoUnchecked =>
        \A f \in Frames :
            (ft[f].type \in TableTypes /\ ft[f].type_count # 0) =>
                \A r \in RWRefs(f) : ~Alive(Owner(r[1]))

\* an L1 table that maps one frame writeable and a page table read-only
C1_Witness ==
    /\ NoUnchecked /\ Alive(0)
    /\ \E t \in Frames, i, j \in Slots :
          /\ ft[t].type = PGT_l1_page_table
          /\ mem[t][i].p /\ mem[t][i].rw /\ IsFrame(mem[t][i].pfn)
          /\ ft[mem[t][i].pfn].type = PGT_writeable_page
          /\ mem[t][j].p /\ ~mem[t][j].rw /\ IsFrame(mem[t][j].pfn)
          /\ ft[mem[t][j].pfn].type \in TableTypes

(***************************************************************************)
(* C2.  As claimed: a normal update whose present new entry names a frame  *)
(* the issuing domain does not own, and a PIN or NEW_BASEPTR of such a     *)
(* frame, fails, the addressed entry keeping its value; and every present  *)
(* entry of the tables of a domain whose requests all succeeded names a    *)
(* frame the domain owns.                                                  *)
(***************************************************************************)
ForeignEntries(d) == {e \in InputEntries : e.p /\ IsFrame(e.pfn) /\ Owner(e.pfn) # d}

C2_ForeignRejected(d) ==
    /\ \A pfn \in Frames, idx \in Slots, val \in ForeignEntries(d) :
          LET x == normal_update(Cur(d), d, pagetable[d], pfn, idx, val)
          IN x.err # 0 /\ x.s.mem[pfn][idx] = mem[pfn][idx]
    /\ \A pfn \in Frames, cmd \in {"PIN_L1_TABLE", "PIN_L2_TABLE", "NEW_BASEPTR"} :
          Owner(pfn) # d =>
              LET x == do_extended_command(Cur(d), d, pagetable[d], pfn, cmd)
              IN x.err # 0 /\ x.s.mem = mem /\ x.base = pagetable[d]

C2_EntriesOwned(d) ==
    \A r \in TableEntries(d) :
        IsFrame(mem[r[1]][r[2]].pfn) /\ Owner(mem[r[1]][r[2]].pfn) = d

C3_Original ==
    \A f \in Frames : ft[f].tot_count >= ft[f].type_count /\ ft[f].type_count >= 0

\* C3 amended: after every completed request of a run without unchecked updates
C3_Amended ==
    NoUnchecked => C3_Original

\* a frame with read-only references next to typed ones, and a pinned frame
C3_Witness ==
    /\ NoUnchecked
    /\ \E f, g \in Frames :
          /\ ft[f].tot_count > ft[f].type_count /\ ft[f].type_count > 0
          /\ Pinned(g)

Conflicts(f, type) == ft[f].type # type /\ ft[f].type_count # 0
CmdType(cmd) == IF cmd = "PIN_L1_TABLE" THEN PGT_l1_page_table ELSE PGT_l2_page_table

InstallConflicts(t, val) ==
    /\ val.p /\ IsFrame(val.pfn)
    /\ \/ ft[t].type = PGT_l2_page_table /\ Conflicts(val.pfn, PGT_l1_page_table)
       \/ /\ ft[t].type = PGT_l1_page_table /\ val.rw
          /\ Conflicts(val.pfn, PGT_writeable_page)

C6_FailureRestoresAll ==
    \A d \in Actors, pfn \in Frames, idx \in Slots, val \in InputEntries :
        Owner(pfn) = d =>
            /\ ft[pfn].type = PGT_l1_page_table =>
                  LET r == mod_l1_entry(Cur(d), d, pfn, idx, val)
                  IN r.ret # 0 => r.s.ft = ft /\ r.s.mem[pfn][idx] = mem[pfn][idx]
            /\ ft[pfn].type = PGT_l2_page_table =>
                  LET r == mod_l2_entry(Cur(d), d, pfn, idx, val)
                  IN r.ret # 0 => r.s.ft = ft /\ r.s.mem[pfn][idx] = mem[pfn][idx]

\* a present entry whose replacement would fail after its referent is released
C6_Witness ==
    \E pfn \in Frames, idx \in Slots, val \in InputEntries :
        /\ Owner(pfn) = 0 /\ ft[pfn].type = PGT_l1_page_table /\ mem[pfn][idx].p
        /\ mod_l1_entry(Cur(0), 0, pfn, idx, val).ret # 0
        /\ ~val.g /\ ~val.x

(***************************************************************************)
(* C7.  After any sequence of successful normal and extended requests,     *)
(* every frame named by a present RW entry of a frame of type L1-table has *)
(* type writeable and a type_count equal to the number of such entries.    *)
(***************************************************************************)
C7_WriteableRefsCounted ==
    NoUnchecked =>
        \A f \in Frames :
            (\E r \in RWRefs(f) : Alive(Owner(r[1]))) =>
                /\ ft[f].type = PGT_writeable_page
                /\ ft[f].type_count = Cardinality(RWRefs(f))

\* a frame mapped writeable twice
C7_Witness ==
    /\ NoUnchecked /\ Alive(0)
    /\ \E f \in Frames : Cardinality(RWRefs(f)) = 2 /\ ft[f].type_count = 2

(***************************************************************************)
(* C8.  As claimed: after any sequence of successful normal and extended   *)
(* requests, every frame named by a present guest entry of a frame of type *)
(* L2-table has type L1-table, and the non-pin part of the type_count of   *)
(* an L1-table frame is the number of such entries naming it.              *)
(***************************************************************************)
C8_L2RefsCounted ==
    (NoUnchecked /\ \A d \in Domains : Alive(d)) =>
        \A f \in Frames :
            /\ L2Refs(f) # {} => ft[f].type = PGT_l1_page_table
            /\ ft[f].type = PGT_l1_page_table =>
                  LowPart(ft[f].type_count) = Cardinality(L2Refs(f))

\* an L1 table still counted after the only L2 table that named it was released
C8_Witness ==
    /\ NoUnchecked /\ Alive(0)
    /\ \E f \in Frames :
          ft[f].type = PGT_l1_page_table /\ L2Refs(f) = {} /\ ft[f].type_count = 1

PinnedWell(f) ==
    Pinned(f) => HasPin(ft[f].tot_count) /\ ft[f].type \in TableTypes
UnpinOf(f) ==
    \E d \in Domains : ExtendedCommand(d, f, "UNPIN_TABLE") /\ ~killed'[d]
PinOf(f) ==
    \E d \in Domains, cmd \in {"PIN_L1_TABLE", "PIN_L2_TABLE"} :
        ExtendedCommand(d, f, cmd) /\ ~killed'[d] /\ ft'[f].type = CmdType(cmd)
PinKept(f) ==
    /\ PinnedWell(f)
    /\ Pinned(f) =>
          \/ UnpinOf(f)
          \/ /\ HasPin(ft'[f].type_count) /\ HasPin(ft'[f].tot_count)
             /\ ft'[f].type = ft[f].type
    /\ (~Pinned(f) /\ HasPin(ft'[f].type_count)) => PinOf(f)

C10_Original ==
    [][\A f \in Frames : PinKept(f)]_vars

\* C10 amended: the same for the steps of a run without unchecked updates
C10_Amended ==
    [][nunchecked' = 0 => \A f \in Frames : PinKept(f)]_vars

\* a pinned frame that is referenced besides, in a run without unchecked updates
C10_Witness ==
    /\ NoUnchecked /\ Alive(0)
    /\ \E f \in Frames : Pinned(f) /\ LowPart(ft[f].type_count) = 1
    /\ \E g \in Frames : ft[g].type = PGT_writeable_page

(***************************************************************************)
(* C11.  A request of a domain that fails, for whatever reason, kills the  *)
(* domain, and a killed domain stays killed and takes no further step:     *)
(* none of the requests behind the failed one is applied.                  *)
(***************************************************************************)
FailureKills(d) ==
    /\ \A pfn \in Frames, idx \in Slots, val \in InputEntries :
          LET x == normal_update(Cur(d), d, pagetable[d], pfn, idx, val)
          IN x.err # 0 => kill_on_error(d, x.err)[d]
    /\ \A pfn \in Frames, idx \in Slots, val \in RawEntries :
          LET x == unchecked_update(Cur(d), d, pagetable[d], pfn, idx, val)
          IN x.err # 0 => kill_on_error(d, x.err)[d]
    /\ \A pfn \in Frames, cmd \in ExtCmds :
          LET x == do_extended_command(Cur(d), d, pagetable[d], pfn, cmd)
          IN x.err # 0 => kill_on_error(d, x.err)[d]

RejectedStep(d) == \E pfn \in ReqPfns, kind \in ReqKinds : RejectedRequest(d, pfn, kind)

C11_FailureIsFatal ==
    /\ [](\A d \in Domains : FailureKills(d))
    /\ [][\A d \in Domains :
             /\ RejectedStep(d) => killed'[d]
             /\ killed[d] => killed'[d] /\ ~Step(d)]_vars

\* domain 0 was killed by a failed request while domain 1 is alive and has
\* pinned its page directory
C11_Witness ==
    killed[0] /\ ~killed[1] /\ ~halted /\ Pinned(ForeignFrame)

(***************************************************************************)
(* C12.  In every state, an unchecked update writes val into the addressed *)
(* entry exactly when the issuing domain is domain 0 and the target frame  *)
(* has type L1-table and is owned by domain 0; otherwise it fails and      *)
(* writes nothing; in no case does it change a frame's type or counts.     *)
(***************************************************************************)
C12_UncheckedUpdate ==
    \A d \in Domains, pfn \in Frames, idx \in Slots, val \in RawEntries :
        LET x == unchecked_update(Cur(d), d, pagetable[d], pfn, idx, val)
            privileged == d = 0 /\ ft[pfn].type = PGT_l1_page_table /\ Owner(pfn) = 0
        IN /\ x.s.ft = ft
           /\ IF privileged
              THEN x.err = 0 /\ x.s.mem = [mem EXCEPT ![pfn][idx] = val]
              ELSE x.err # 0 /\ x.s.mem = mem

\* domain 0 has made an unchecked update: an entry no validated update could
\* have stored
C12_Witness ==
    /\ nunchecked = 1 /\ Alive(0)
    /\ \E t \in Frames, i \in Slots :
          /\ ft[t].type = PGT_l1_page_table /\ Owner(t) = 0
          /\ mem[t][i].p /\ mem[t][i].pfn = ForeignFrame

(***************************************************************************)
(* C13.  As claimed: in every state of a run of validated requests, for a  *)
(* frame f the domain owns and has not pinned, a successful PIN_L1 or      *)
(* PIN_L2 of f followed at once by UNPIN of f succeeds and leaves the      *)
(* whole frame table as it was before the PIN.                             *)
(***************************************************************************)
PinCmds == {"PIN_L1_TABLE", "PIN_L2_TABLE"}

C13_PinUnpinRestores ==
    \A d \in Actors, f \in Frames, cmd \in PinCmds :
        (NoUnchecked /\ Alive(d) /\ Owner(f) = d /\ ~Pinned(f)) =>
            LET x == do_extended_command(Cur(d), d, pagetable[d], f, cmd)
            IN x.err = 0 =>
                  LET y == do_extended_command(x.s, d, x.base, f, "UNPIN_TABLE")
                  IN y.err = 0 /\ y.s.ft = ft

\* a pinned page directory, not the domain's root, with a present guest entry
\* above the first HYPERVISOR_ENTRIES_PER_L2_PAGETABLE slots
C13_Witness ==
    /\ NoUnchecked /\ Alive(0)
    /\ \E f \in Frames, i \in GuestSlots :
          /\ Owner(f) = 0 /\ Pinned(f) /\ ft[f].type = PGT_l2_page_table
          /\ f # pagetable[0] /\ LowPart(ft[f].type_count) = 0
          /\ i >= HYPERVISOR_ENTRIES_PER_L2_PAGETABLE /\ mem[f][i].p

(***************************************************************************)
(* C14.  As claimed: in every state of a run of validated requests, a      *)
(* get_page, get_l1_table or get_l2_table that succeeds, followed at once  *)
(* by the matching put on the same frame, leaves the type, type_count and  *)
(* tot_count of every frame as they were.                                  *)
(***************************************************************************)
GetPutPage(d, f) ==
    \A w \in BOOLEAN :
        LET r == get_page(Cur(d), d, f, w)
        IN r.ret = 0 => put_page(r.s, d, f, w).ft = ft
GetPutL1(d, f) ==
    LET r == get_l1_table(Cur(d), d, f)
    IN r.ret = 0 => put_l1_table(r.s, d, f).ft = ft
GetPutL2(d, f) ==
    LET r == get_l2_table(Cur(d), d, f)
    IN r.ret = 0 => put_l2_table(r.s, d, f).s.ft = ft

C14_GetPutNoOp ==
    \A d \in Actors, f \in Frames :
        (NoUnchecked /\ Alive(d)) =>
            GetPutPage(d, f) /\ GetPutL1(d, f) /\ GetPutL2(d, f)

\* an untyped frame of the domain that get_l2_table accepts as a page
\* directory and that names an L1 table from an upper guest slot
C14_Witness ==
    /\ NoUnchecked /\ Alive(0)
    /\ \E f \in Frames, i \in GuestSlots :
          /\ Owner(f) = 0 /\ ft[f].type = PGT_none /\ ft[f].type_count = 0
          /\ i >= HYPERVISOR_ENTRIES_PER_L2_PAGETABLE /\ mem[f][i].p
          /\ get_l2_table(Cur(0), 0, f).ret = 0

(***************************************************************************)
(* C15.  A request that takes away the last writeable reference of a       *)
(* frame, a TLB_FLUSH and a NEW_BASEPTR leave the CPU's flush flag set;    *)
(* the flag, once set, stays set through every request and is cleared,     *)
(* with the reload of the root, only at the end of the batch, after which  *)
(* it is clear: one flush per batch, after its last request, none between  *)
(* requests.                                                               *)
(***************************************************************************)
\* the frame table fa has lost the last writeable reference of a frame
LastWriteableGone(fa) ==
    \E f \in Frames :
        /\ ft[f].type = PGT_writeable_page /\ ft[f].type_count # 0
        /\ fa[f].type_count = 0

FlushRequested(d) ==
    /\ \A pfn \in Frames, idx \in Slots, val \in InputEntries :
          LET x == normal_update(Cur(d), d, pagetable[d], pfn, idx, val)
          IN LastWriteableGone(x.s.ft) => x.s.tlb
    /\ \A pfn \in Frames, cmd \in ExtCmds :
          LET x == do_extended_command(Cur(d), d, pagetable[d], pfn, cmd)
          IN /\ LastWriteableGone(x.s.ft) => x.s.tlb
             /\ cmd \in {"TLB_FLUSH", "NEW_BASEPTR"} => x.s.tlb
             /\ tlb_flush[d] => x.s.tlb
    /\ \A pfn \in Frames, idx \in Slots, val \in InputEntries :
          tlb_flush[d] => normal_update(Cur(d), d, pagetable[d], pfn, idx, val).s.tlb

C15_FlushOnceAtBatchEnd ==
    /\ [](\A d \in Actors : FlushRequested(d))
    /\ [][\A d \in Actors :
             /\ BatchEnd(d) => tlb_flush[d] /\ ~tlb_flush'[d]
             /\ (tlb_flush[d] /\ ~tlb_flush'[d]) => BatchEnd(d)
             /\ (LastWriteableGone(ft') /\ ~tlb_flush[d]) => tlb_flush'[d]]_vars

\* a flush is pending after the only writeable mapping was taken away
C15_Witness ==
    /\ tlb_flush[0] /\ Alive(0) /\ NoUnchecked /\ nreq = 3
    /\ pagetable[0] = Roots[0]
    /\ \E t \in Frames :
          /\ ft[t].type = PGT_l1_page_table
          /\ \A i \in Slots : ~mem[t][i].p
    /\ \A f \in Frames : ft[f].type # PGT_writeable_page

(***************************************************************************)
(* C16.  A normal update of an entry in the hypervisor's high portion of   *)
(* an L2-typed frame (index >= DOMAIN_ENTRIES_PER_L2_PAGETABLE) fails and  *)
(* leaves the entry and the frame table as they were; and no normal        *)
(* update, whatever it addresses, changes an entry in the high portion of  *)
(* an L2-typed frame.                                                      *)
(***************************************************************************)
HighSlots == DOMAIN_ENTRIES_PER_L2_PAGETABLE .. (ENTRIES_PER_L2_PAGETABLE - 1)

C16_HighPortionReadOnly ==
    \A d \in Actors, pfn \in Frames, idx \in Slots, val \in InputEntries :
        LET x == normal_update(Cur(d), d, pagetable[d], pfn, idx, val)
        IN /\ (ft[pfn].type = PGT_l2_page_table /\ idx \in HighSlots) =>
                 x.err # 0 /\ x.s.ft = ft /\ x.s.mem = mem
           /\ \A f \in Frames, i \in HighSlots :
                 ft[f].type = PGT_l2_page_table => x.s.mem[f][i] = mem[f][i]

\* a second L2 table of the acting domain, in use, with the hypervisor's
\* mapping in its high portion and a guest entry the domain installed
C16_Witness ==
    /\ Alive(0) /\ NoUnchecked /\ ~halted
    /\ \E f \in Frames \ {Roots[0]} :
          /\ Owner(f) = 0 /\ ft[f].type = PGT_l2_page_table
          /\ \A i \in HighSlots : mem[f][i] = hyp_l2_entry
          /\ \E i \in GuestSlots : mem[f][i].p

(***************************************************************************)
(* C17.  NEW_BASEPTR with argument frame A, issued by a domain that never  *)
(* used an unchecked update.  If get_l2_table(A) succeeds: the request     *)
(* succeeds, the saved root names A, A has type L2-table and one type      *)
(* reference more than before, and the previous root one less (the two     *)
(* cancel when A is the previous root).  If get_l2_table(A) fails: the     *)
(* request is reported failed, the saved root is the previous one and the  *)
(* previous root's type and counts are as before.                          *)
(***************************************************************************)
NewBaseptr(d, A) == do_extended_command(Cur(d), d, pagetable[d], A, "NEW_BASEPTR")

C17_NewBaseptr ==
    NoUnchecked =>
    \A d \in Actors, A \in Frames :
        LET old == pagetable[d]
            x == NewBaseptr(d, A)
        IN Alive(d) =>
           IF get_l2_table(Cur(d), d, A).ret = 0
           THEN /\ x.err = 0 /\ x.base = A
                /\ x.s.ft[A].type = PGT_l2_page_table
                /\ x.s.ft[A].type_count =
                       IF A = old THEN ft[A].type_count ELSE Inc32(ft[A].type_count)
                /\ A # old => x.s.ft[old].type_count = Dec32(ft[old].type_count)
           ELSE /\ x.err # 0 /\ x.base = old
                /\ x.s.ft[old] = ft[old]

\* a domain that has switched roots holds an untyped frame whose validation
\* as a page directory fails after it has reached the current root
C17_Witness ==
    /\ NoUnchecked /\ Alive(0) /\ ~halted /\ ~assert_failed
    /\ pagetable[0] # Roots[0]
    /\ \E A \in Frames :
          /\ Owner(A) = 0 /\ ft[A].type = PGT_none
          /\ get_l2_table(Cur(0), 0, A).ret # 0
          /\ NewBaseptr(0, A).s.ft[pagetable[0]].tot_count # ft[pagetable[0]].tot_count

(***************************************************************************)
(* C18.  A normal update is handed to mod_l1_entry when the addressed      *)
(* frame belongs to the issuing domain and has type L1-table, to           *)
(* mod_l2_entry when it belongs to it and has type L2-table; addressed to  *)
(* a frame of type none or writeable, or to a frame of another owner, it   *)
(* fails and changes no entry and no frame record.                         *)
(***************************************************************************)
C18_NormalUpdateDispatch ==
    \A d \in Domains, pfn \in Frames, idx \in Slots, val \in InputEntries :
        LET s == Cur(d)
            x == normal_update(s, d, pagetable[d], pfn, idx, val)
        IN IF Owner(pfn) = d /\ ft[pfn].type = PGT_l1_page_table
           THEN LET r == mod_l1_entry(s, d, pfn, idx, val)
                IN x.s = r.s /\ (x.err = 0 <=> r.ret = 0)
           ELSE IF Owner(pfn) = d /\ ft[pfn].type = PGT_l2_page_table
           THEN LET r == mod_l2_entry(s, d, pfn, idx, val)
                IN x.s = r.s /\ (x.err = 0 <=> r.ret = 0)
           ELSE x.err # 0 /\ x.s.ft = ft /\ x.s.mem = mem

\* domain 0 has been killed by a normal update while the other domain's
\* page directory and its own tables are as they were
C18_Witness ==
    /\ killed[0] /\ ~killed[1] /\ NoUnchecked /\ nwrites = 0 /\ ~tlb_flush[0]
    /\ nreq >= 2
    /\ ft[ForeignFrame].type = PGT_l2_page_table
    /\ \E f \in Frames : Owner(f) = 0 /\ ft[f].type = PGT_writeable_page

(***************************************************************************)
(* C19.  Pinning is not nested.  In every state a PIN_L1/PIN_L2 of a frame *)
(* whose pin bit is set fails, and an UNPIN of a frame whose pin bit is    *)
(* clear, or that the issuing domain does not own, fails.  As claimed, a   *)
(* second PIN of a frame can therefore succeed only after a successful     *)
(* UNPIN of it: no other step takes the pin bit away.                      *)
(***************************************************************************)
PinFailures ==
    \A d \in Domains, f \in Frames :
        /\ Pinned(f) =>
              \A cmd \in PinCmds :
                  do_extended_command(Cur(d), d, pagetable[d], f, cmd).err # 0
        /\ (~Pinned(f) \/ Owner(f) # d) =>
              LET x == do_extended_command(Cur(d), d, pagetable[d], f, "UNPIN_TABLE")
              IN x.err # 0 /\ x.s.ft = ft

PinLostByUnpin(f) ==
    (Pinned(f) /\ ~HasPin(ft'[f].type_count)) => UnpinOf(f)

OthersKept(d, s1) ==
    \A f \in Frames :
        (Owner(f) \in Domains /\ Owner(f) # d) =>
            s1.ft[f] = ft[f] /\ s1.mem[f] = mem[f]

Isolated(d) ==
    /\ \A pfn \in Frames, idx \in Slots, val \in InputEntries :
          OthersKept(d, normal_update(Cur(d), d, pagetable[d], pfn, idx, val).s)
    /\ \A pfn \in Frames, idx \in Slots, val \in RawEntries :
          OthersKept(d, unchecked_update(Cur(d), d, pagetable[d], pfn, idx, val).s)
    /\ \A pfn \in Frames, cmd \in ExtCmds :
          OthersKept(d, do_extended_command(Cur(d), d, pagetable[d], pfn, cmd).s)

RECURSIVE ReleaseGuestPortion(_, _, _, _)
ReleaseGuestPortion(s, d, page_nr, i) ==
    IF i >= DOMAIN_ENTRIES_PER_L2_PAGETABLE THEN s
    ELSE LET l2_entry == s.mem[page_nr][i] IN
         IF l2_entry.p
         THEN ReleaseGuestPortion(put_l1_table(s, d, l2_entry.pfn), d, page_nr, i + 1)
         ELSE ReleaseGuestPortion(s, d, page_nr, i + 1)

C21_PutL2WalksGuestPortion ==
    \A d \in Actors, f \in Frames :
        (/\ NoUnchecked /\ Alive(d) /\ ~halted
         /\ Owner(f) = d /\ ft[f].type = PGT_l2_page_table /\ ft[f].type_count = 1) =>
            LET r == dec_page_refcnt(Cur(d), d, f, PGT_l2_page_table)
            IN put_l2_table(Cur(d), d, f).s = ReleaseGuestPortion(r.s, d, f, 0)

\* a page directory holding its last reference has a validated L1 table in a
\* guest slot that the release walk does not reach
C21_Witness ==
    /\ NoUnchecked /\ Alive(0) /\ ~halted /\ nwrites = 0
    /\ \E f \in Frames, i \in GuestSlots :
          /\ Owner(f) = 0 /\ ft[f].type = PGT_l2_page_table /\ ft[f].type_count = 1
          /\ i >= HYPERVISOR_ENTRIES_PER_L2_PAGETABLE
          /\ mem[f][i].p /\ ft[mem[f][i].pfn].type = PGT_l1_page_table

(***************************************************************************)
(* C22.  A first-reference get_l2_table of a frame A of the domain whose   *)
(* guest portion holds one present entry, without forbidden bits, naming A *)
(* itself, and nothing else, succeeds.                                     *)
(***************************************************************************)
\* untyped frame A of domain d whose only present guest entry names A
SelfReferencing(d, A) ==
    /\ Owner(A) = d /\ ft[A].type = PGT_none /\ ft[A].type_count = 0
    /\ \E i \in GuestSlots :
          /\ mem[A][i].p /\ ~mem[A][i].g /\ ~mem[A][i].x /\ mem[A][i].pfn = A
          /\ \A j \in GuestSlots \ {i} : ~mem[A][j].p

C22_SelfReferenceAccepted ==
    \A d \in Actors, A \in Frames :
        (NoUnchecked /\ Alive(d) /\ ~halted /\ SelfReferencing(d, A)) =>
            get_l2_table(Cur(d), d, A).ret = 0

\* the guest has prepared a page directory that maps itself
C22_Witness ==
    /\ NoUnchecked /\ Alive(0) /\ ~halted /\ ~assert_failed
    /\ \E A \in Frames : SelfReferencing(0, A)

(***************************************************************************)
(* C23.  PIN_L1/PIN_L2 of a frame that is already pinned, the get of the   *)
(* table succeeding.  As claimed: the request is reported failed and the   *)
(* frame's type_count and tot_count differ afterwards from what they were  *)
(* before the request.                                                     *)
(***************************************************************************)
PinGet(d, f, cmd) ==
    IF cmd = "PIN_L1_TABLE" THEN get_l1_table(Cur(d), d, f) ELSE get_l2_table(Cur(d), d, f)

\* the PIN requests of running domains on pinned frames whose get succeeds
RePins ==
    {c \in Domains \X Frames \X PinCmds :
        /\ Alive(c[1]) /\ ~halted /\ Pinned(c[2])
        /\ PinGet(c[1], c[2], c[3]).ret = 0}

RePin(c) == do_extended_command(Cur(c[1]), c[1], pagetable[c[1]], c[2], c[3])

C23_Original ==
    \A c \in RePins :
        /\ RePin(c).err # 0
        /\ RePin(c).s.ft[c[2]].type_count # ft[c[2]].type_count
        /\ RePin(c).s.ft[c[2]].tot_count # ft[c[2]].tot_count

\* C23 amended: the request is reported failed and both counts, like the
\* rest of the frame table, are what they were before the request
C23_Amended ==
    \A c \in RePins :
        /\ RePin(c).err # 0
        /\ RePin(c).s.ft[c[2]].type_count = ft[c[2]].type_count
        /\ RePin(c).s.ft[c[2]].tot_count = ft[c[2]].tot_count
        /\ RePin(c).s.ft = ft

\* the domain was killed by its second request, with a page directory of its
\* own besides the root pinned and not referenced otherwise
C23_Witness ==
    /\ killed[0] /\ nreq = 2 /\ nwrites = 0 /\ nunchecked = 0
    /\ \E f \in Frames \ {pagetable[0]} :
          /\ Owner(f) = 0 /\ ft[f].type = PGT_l2_page_table
          /\ Pinned(f) /\ LowPart(ft[f].type_count) = 0

(***************************************************************************)
(* C24.  As claimed: in every reachable state no ASSERT has been false,    *)
(* and whatever request a running domain issues next, every                *)
(* dec_page_refcnt and put_page it leads to finds its frame in range,      *)
(* owned by the domain, of the expected type and with a count that is not  *)
(* 0: no test of a release fails and no ASSERT is false.                   *)
(***************************************************************************)
ReleasesHeld(d) ==
    /\ \A pfn \in Frames, idx \in Slots, val \in InputEntries :
          LET x == normal_update(Cur(d), d, pagetable[d], pfn, idx, val)
          IN ~x.s.unheld /\ ~x.s.af
    /\ \A pfn \in Frames, cmd \in ExtCmds :
          LET x == do_extended_command(Cur(d), d, pagetable[d], pfn, cmd)
          IN ~x.s.unheld /\ ~x.s.af

WalkOnFirstGet(d, f) ==
    LET s == Cur(d)
        i1 == inc_page_refcnt(s, d, f, PGT_l1_page_table)
        i2 == inc_page_refcnt(s, d, f, PGT_l2_page_table)
        w2 == get_l2_walk(i2.s, d, f, 0)
    IN /\ (i1.ret = 0) <=> (Owner(f) = d /\ ft[f].type_count = 0)
       /\ (i2.ret = 0) <=> (Owner(f) = d /\ ft[f].type_count = 0)
       /\ IF i1.ret = 0
          THEN get_l1_table(s, d, f) = get_l1_walk(i1.s, d, f, 0)
          ELSE get_l1_table(s, d, f).s = i1.s
       /\ IF i2.ret = 0
          THEN /\ get_l2_table(s, d, f).ret = w2.ret
               /\ get_l2_table(s, d, f).s.ft = w2.s.ft
          ELSE get_l2_table(s, d, f).s = i2.s

WalkOnLastPut(d, f) ==
    LET s == Cur(d)
        p1 == dec_page_refcnt(s, d, f, PGT_l1_page_table)
        p2 == dec_page_refcnt(s, d, f, PGT_l2_page_table)
    IN /\ (p1.ret = 0) <=>
             (Owner(f) = d /\ ft[f].type = PGT_l1_page_table /\ ft[f].type_count = 1)
       /\ (p2.ret = 0) <=>
             (Owner(f) = d /\ ft[f].type = PGT_l2_page_table /\ ft[f].type_count = 1)
       /\ put_l1_table(s, d, f) =
             IF p1.ret = 0 THEN put_l1_walk(p1.s, d, f, 0) ELSE p1.s
       /\ put_l2_table(s, d, f).s =
             IF p2.ret = 0 THEN put_l2_walk(p2.s, d, f, 0) ELSE p2.s

\* a further reference of a table in use changes the record of that table
\* and nothing else
NoWalkInUse(d, f) ==
    (Owner(f) = d /\ ft[f].type \in TableTypes /\ ft[f].type_count # 0) =>
        LET g == IF ft[f].type = PGT_l1_page_table
                 THEN get_l1_table(Cur(d), d, f) ELSE get_l2_table(Cur(d), d, f)
        IN /\ g.s.mem = mem
           /\ \A h \in Frames \ {f} : g.s.ft[h] = ft[h]
           /\ g.s.ft[f] = [type |-> ft[f].type,
                           type_count |-> Inc32(ft[f].type_count),
                           tot_count |-> Inc32(ft[f].tot_count)]

C25_WalkOnFirstAndLast ==
    \A d \in Actors, f \in Frames :
        WalkOnFirstGet(d, f) /\ WalkOnLastPut(d, f) /\ NoWalkInUse(d, f)

\* a pinned L1 table got a second reference from a page directory; the page
\* it maps writeable is counted once
C25_Witness ==
    /\ NoUnchecked /\ Alive(0) /\ ~halted
    /\ \E f \in Frames, i \in Slots :
          /\ Owner(f) = 0 /\ ft[f].type = PGT_l1_page_table
          /\ Pinned(f) /\ LowPart(ft[f].type_count) = 1
          /\ mem[f][i].p /\ mem[f][i].rw
          /\ ft[mem[f][i].pfn].type = PGT_writeable_page
          /\ ft[mem[f][i].pfn].type_count = 1

(***************************************************************************)
(* C26.  get_page of a frame of the current domain for a read-only mapping *)
(* succeeds whatever the frame's type, adds 1 to tot_count and leaves type *)
(* and type_count alone; put_page for a read-only mapping takes 1 from     *)
(* tot_count, leaves type and type_count alone and does not set the flush  *)
(* flag.  No other record and no entry is changed.                         *)
(***************************************************************************)
C26_ReadOnlyCountsTotOnly ==
    \A d \in Domains, f \in Frames :
        LET g == get_page(Cur(d), d, f, FALSE)
            p == put_page(Cur(d), d, f, FALSE)
        IN /\ Owner(f) = d =>
                 /\ g.ret = 0
                 /\ g.s.ft = [ft EXCEPT ![f].tot_count = Inc32(ft[f].tot_count)]
                 /\ g.s.mem = mem /\ g.s.tlb = tlb_flush[d]
           /\ p.ft = [ft EXCEPT ![f].tot_count = Dec32(ft[f].tot_count)]
           /\ p.mem = mem /\ p.tlb = tlb_flush[d]

\* an L1 table maps a page table in use read-only: the mapped table has one
\* reference more in tot_count than in type_count
C26_Witness ==
    /\ NoUnchecked /\ Alive(0) /\ ~halted
    /\ \E t \in Frames, i \in Slots :
          /\ ft[t].type = PGT_l1_page_table /\ mem[t][i].p /\ ~mem[t][i].rw
          /\ LET f == mem[t][i].pfn
             IN /\ Owner(f) = 0 /\ ft[f].type \in TableTypes
                /\ ft[f].tot_count = ft[f].type_count + 1

(***************************************************************************)
(* C27.  After every completed request every frame whose type is not none  *)
(* has a type_count that is not 0, the pin bit counting, and the step that *)
(* takes a type_count to 0 leaves the frame with type none; so the frames  *)
(* a normal update is admitted to by their type tag all hold a type        *)
(* reference.                                                              *)
(***************************************************************************)
TypedIsReferenced ==
    \A f \in Frames : ft[f].type # PGT_none => ft[f].type_count # 0

C27_TypedFramesAreReferenced ==
    /\ []TypedIsReferenced
    /\ [][\A f \in Frames :
             (ft[f].type_count # 0 /\ ft'[f].type_count = 0) =>
                 ft[f].type # PGT_none /\ ft'[f].type = PGT_none]_vars

\* a table that only its pin keeps typed holds an entry that a normal update
\* stored
C27_Witness ==
    /\ NoUnchecked /\ nwrites = 0 /\ Alive(0) /\ ~halted
    /\ \E f \in Frames, i \in Slots :
          /\ Owner(f) = 0 /\ ft[f].type = PGT_l1_page_table
          /\ Pinned(f) /\ LowPart(ft[f].type_count) = 0
          /\ mem[f][i].p

====
